---- MODULE Spec2Model ----
(***************************************************************************)
(* Model of the in-memory multiway search tree of src/src/main.rs:         *)
(* BTreeNode (find_it, generate_find_path, find, split, add_recursive)     *)
(* and BTree (new, find, add), together with the driver of main().         *)
(* Indices are 0-based as in the source; At(s, i) reads slot i.            *)
(***************************************************************************)
EXTENDS Integers, Sequences, FiniteSets, TLC

\* ---------------------------------------------------------------- bounds
MaxCap == 3
MaxKey == 5
MaxAdds == 5

\* main(): BTree::new(3) and the 26 pairs (1,"a") .. (26,"z")
MainNodeSize == 3
MainLen == 26

Keys == 1..MaxKey
Vals == {"a", "b"}
ProbeKeys == 1..(MaxKey + 1)
Letters == <<"a","b","c","d","e","f","g","h","i","j","k","l","m",
             "n","o","p","q","r","s","t","u","v","w","x","y","z">>

VARIABLES root, added, nadds, res, fi, sp

vars == <<root, added, nadds, res, fi, sp>>

\* ------------------------------------------------------- sequence helpers
At(s, i) == s[i + 1]

\* Vec::insert(index, x)
Insert(s, index, x) == SubSeq(s, 1, index) \o <<x>> \o SubSeq(s, index + 1, Len(s))

RECURSIVE Reverse(_)
Reverse(s) == IF s = <<>> THEN <<>> ELSE Reverse(Tail(s)) \o <<Head(s)>>

\* ------------------------------------------------------------ BTreeNode
BTreeNodeNew(node_size) ==
  [node_size |-> node_size, keys |-> <<>>, values |-> <<>>, children |-> <<>>]

\* One evaluation of the loop test of find_it and, when it holds, of the
\* loop body; s = [low, high, ret, pc].
find_it_step_retmid(keys, key, s) ==
  IF s.high # s.low
  THEN LET mid == (s.high + s.low) \div 2 IN
       IF key < At(keys, mid) THEN [s EXCEPT !.high = mid]
       ELSE IF key > At(keys, mid) THEN [s EXCEPT !.low = mid + 1]
       ELSE [s EXCEPT !.ret = -mid, !.pc = "done"]
  ELSE [s EXCEPT !.ret = s.low, !.pc = "done"]

find_it_step(keys, key, s) ==
  IF s.high # s.low
  THEN LET mid == (s.high + s.low) \div 2 IN
       IF key < At(keys, mid) THEN [s EXCEPT !.high = mid]
       ELSE IF key > At(keys, mid) THEN [s EXCEPT !.low = mid + 1]
       ELSE [s EXCEPT !.ret = -mid - 1, !.pc = "done"]
  ELSE [s EXCEPT !.ret = s.low, !.pc = "done"]

find_it_entry(keys) == [low |-> 0, high |-> Len(keys), ret |-> 0, pc |-> "loop"]

RECURSIVE find_it_loop(_, _, _)
find_it_loop(keys, key, s) ==
  IF s.pc = "done" THEN s.ret ELSE find_it_loop(keys, key, find_it_step(keys, key, s))

find_it(keys, key) == find_it_loop(keys, key, find_it_entry(keys))

RECURSIVE find_path_loop(_, _, _)
find_path_loop(current_node, key, stack) ==
  LET i == find_it(current_node.keys, key) IN
  IF i < 0 THEN Append(stack, -(i + 1))
  ELSE IF i < Len(current_node.children)
       THEN find_path_loop(At(current_node.children, i), key, Append(stack, i))
       ELSE <<>>

generate_find_path_noreverse(self, key) == find_path_loop(self, key, <<>>)

generate_find_path(self, key) == Reverse(find_path_loop(self, key, <<>>))

\* Option<V> of find, plus the panic of an out-of-bounds index.
Some(v) == [tag |-> "Some", val |-> v]
None == [tag |-> "None", val |-> ""]
Panic == [tag |-> "Panic", val |-> ""]

\* The while-let loop of find: pops the path from its end.
RECURSIVE find_walk(_, _)
find_walk(current_node, path) ==
  IF Len(path) = 0
  THEN [node |-> current_node, key_index |-> 0, panic |-> FALSE]
  ELSE LET index == path[Len(path)]
           rest == SubSeq(path, 1, Len(path) - 1)
       IN IF Len(rest) = 0
          THEN [node |-> current_node, key_index |-> index, panic |-> FALSE]
          ELSE IF index >= Len(current_node.children)
               THEN [node |-> current_node, key_index |-> 0, panic |-> TRUE]
               ELSE find_walk(At(current_node.children, index), rest)

find_nocompare(self, key) ==
  LET w == find_walk(self, generate_find_path(self, key)) IN
  IF w.panic \/ w.key_index >= Len(w.node.keys) THEN Panic
  ELSE Some(At(w.node.values, w.key_index))

find(self, key) ==
  LET w == find_walk(self, generate_find_path(self, key)) IN
  IF w.panic \/ w.key_index >= Len(w.node.keys) THEN Panic
  ELSE IF At(w.node.keys, w.key_index) = key
       THEN IF w.key_index >= Len(w.node.values) THEN Panic
            ELSE Some(At(w.node.values, w.key_index))
       ELSE None

\* split: returns the node as left behind and the node handed back.
split_movechildren(self) ==
  LET mid == Len(self.keys) \div 2 IN
  [self |-> [self EXCEPT !.keys = SubSeq(@, 1, mid),
                         !.values = SubSeq(@, 1, mid),
                         !.children = SubSeq(@, 1, IF Len(@) < mid + 1 THEN Len(@) ELSE mid + 1)],
   new_node |-> [node_size |-> self.node_size,
                 keys |-> SubSeq(self.keys, mid + 1, Len(self.keys)),
                 values |-> SubSeq(self.values, mid + 1, Len(self.values)),
                 children |-> SubSeq(self.children, mid + 2, Len(self.children))]]

split(self) ==
  LET mid == Len(self.keys) \div 2 IN
  [self |-> [self EXCEPT !.keys = SubSeq(@, 1, mid),
                         !.values = SubSeq(@, 1, mid)],
   new_node |-> [BTreeNodeNew(self.node_size) EXCEPT
                   !.keys = SubSeq(self.keys, mid + 1, Len(self.keys)),
                   !.values = SubSeq(self.values, mid + 1, Len(self.values))]]

\* The test of line 96: the key goes into this node's own sequences.
insert_directly_leaf(self) == Len(self.children) = 0

insert_directly(self) == Len(self.children) < self.node_size + 1

\* The test of line 122: the node must split.
overflows_late(self) == Len(self.keys) = self.node_size + 2

overflows(self) == Len(self.keys) = self.node_size + 1

\* add_recursive: self as left behind, the returned Option<BTreeNode>
\* (<<>> is None, <<n>> is Some(n)), whether the call panicked, and whether
\* it took the branch that descends into a child.
AddPanic(self) == [self |-> self, ret |-> <<>>, panic |-> TRUE, descended |-> TRUE]

RECURSIVE add_recursive(_, _, _)
add_recursive(self, key, value) ==
  LET i == find_it(self.keys, key)
      body ==
        IF insert_directly(self)
        THEN LET index == IF i < 0 THEN -(i + 1) ELSE i IN
             [self |-> [self EXCEPT !.keys = Insert(@, index, key),
                                    !.values = Insert(@, index, value)],
              ret |-> <<>>, panic |-> FALSE, descended |-> FALSE]
        ELSE \* index = i as usize: a negative i wraps beyond any length
             IF i < 0 \/ ~(i <= Len(self.children) + 1) \/ i >= Len(self.children)
             THEN AddPanic(self)
             ELSE LET r == add_recursive(At(self.children, i), key, value)
                      withChild == [self EXCEPT !.children[i + 1] = r.self]
                  IN IF r.panic THEN AddPanic(withChild)
                     ELSE IF r.ret = <<>>
                     THEN [self |-> withChild, ret |-> <<>>, panic |-> FALSE, descended |-> TRUE]
                     ELSE IF r.ret[1].keys = <<>> \/ r.ret[1].values = <<>>
                     THEN AddPanic(withChild)
                     ELSE LET new_key == Head(r.ret[1].keys)
                              new_value == Head(r.ret[1].values)
                              new_node == [r.ret[1] EXCEPT !.keys = Tail(@), !.values = Tail(@)]
                          IN [self |-> [withChild EXCEPT
                                          !.children = Insert(@, i + 1, new_node),
                                          !.keys = Insert(@, i, new_key),
                                          !.values = Insert(@, i, new_value)],
                              ret |-> <<>>, panic |-> FALSE, descended |-> TRUE]
  IN IF body.panic THEN body
     ELSE IF overflows(body.self)
          THEN LET s == split(body.self) IN [body EXCEPT !.self = s.self, !.ret = <<s.new_node>>]
          ELSE body

\* ---------------------------------------------------------------- BTree
BTreeNew(node_size) == BTreeNodeNew(node_size)

BTreeFind(r, k) == find(r, k)

\* The body of `if let Some(mut overflow)` in BTree::add: the new root.
new_root_keepfirst(oldroot, overflow) ==
  [BTreeNodeNew(oldroot.node_size) EXCEPT
     !.keys = <<Head(overflow.keys)>>,
     !.values = <<Head(overflow.values)>>,
     !.children = <<oldroot, overflow>>]

new_root(oldroot, overflow) ==
  [BTreeNodeNew(oldroot.node_size) EXCEPT
     !.keys = <<Head(overflow.keys)>>,
     !.values = <<Head(overflow.values)>>,
     !.children = <<oldroot, [overflow EXCEPT !.keys = Tail(@), !.values = Tail(@)]>>]

\* BTree::add: the new root, whether the call panicked, whether the root's
\* add_recursive descended.
BTreeAdd(r, key, value) ==
  LET a == add_recursive(r, key, value) IN
  IF a.panic THEN [root |-> a.self, panic |-> TRUE, descended |-> a.descended]
  ELSE IF a.ret = <<>> THEN [root |-> a.self, panic |-> FALSE, descended |-> a.descended]
  ELSE LET overflow == a.ret[1] IN
       IF overflow.keys = <<>> \/ overflow.values = <<>>
       THEN [root |-> a.self, panic |-> TRUE, descended |-> a.descended]
       ELSE [root |-> new_root(a.self, overflow),
             panic |-> FALSE, descended |-> a.descended]

\* ------------------------------------------------------ tree inspection
RECURSIVE Nodes(_)
Nodes(n) == {n} \cup UNION {Nodes(n.children[j]) : j \in 1..Len(n.children)}

RECURSIVE SubtreeKeys(_)
SubtreeKeys(n) ==
  {n.keys[j] : j \in 1..Len(n.keys)}
    \cup UNION {SubtreeKeys(n.children[j]) : j \in 1..Len(n.children)}

RECURSIVE Height(_)
Height(n) ==
  IF n.children = <<>> THEN 1
  ELSE 1 + CHOOSE h \in {Height(n.children[j]) : j \in 1..Len(n.children)} :
             \A g \in {Height(n.children[j]) : j \in 1..Len(n.children)} : g <= h

RECURSIVE Flatten(_)
Flatten(ss) == IF ss = <<>> THEN <<>> ELSE Head(ss) \o Flatten(Tail(ss))

\* every (key, value) slot of every node, one entry per slot
RECURSIVE Pairs(_)
Pairs(n) ==
  [j \in 1..Len(n.keys) |-> <<n.keys[j], IF j <= Len(n.values) THEN n.values[j] ELSE "">>]
    \o Flatten([j \in 1..Len(n.children) |-> Pairs(n.children[j])])

Range(s) == {s[j] : j \in 1..Len(s)}

StrictlyIncreasing(s) == \A j \in 1..(Len(s) - 1) : s[j] < s[j + 1]

RECURSIVE Ordered(_)
Ordered(n) ==
  /\ StrictlyIncreasing(n.keys)
  /\ \A i \in 0..(Len(n.keys) - 1) :
       /\ i < Len(n.children) =>
            \A k \in SubtreeKeys(At(n.children, i)) : k < At(n.keys, i)
       /\ i + 1 < Len(n.children) =>
            \A k \in SubtreeKeys(At(n.children, i + 1)) : k > At(n.keys, i)
  /\ \A j \in 1..Len(n.children) : Ordered(n.children[j])

\* added: the (key, value) pairs passed to add so far; nadds: how many adds
AddedKeys == {p[1] : p \in added}

DistinctKeys == Cardinality(AddedKeys) = nadds

\* ------------------------------------------------------- the tree in use
ResNew == [op |-> "new", key |-> 0, tag |-> "Ok", val |-> "", descended |-> FALSE]
FiIdle == [keys |-> <<>>, key |-> 0, s |-> [low |-> 0, high |-> 0, ret |-> 0, pc |-> "idle"]]
SpIdle == [pc |-> "idle", before |-> BTreeNodeNew(0), self |-> BTreeNodeNew(0), new_node |-> <<>>]

\* BTree::new(node_size)
Init ==
  /\ \E c \in 1..MaxCap : root = BTreeNew(c)
  /\ added = {}
  /\ nadds = 0
  /\ res = ResNew
  /\ fi = FiIdle
  /\ sp = SpIdle

\* tree.add(k, v)
AddOp(k, v) ==
  /\ res.tag # "Panic"
  /\ LET b == BTreeAdd(root, k, v) IN
       /\ root' = IF b.panic THEN root ELSE b.root
       /\ res' = [op |-> "add", key |-> k, tag |-> IF b.panic THEN "Panic" ELSE "Ok",
                  val |-> v, descended |-> b.descended]
  /\ added' = added \cup {<<k, v>>}
  /\ nadds' = nadds + 1
  /\ UNCHANGED <<fi, sp>>

\* tree.find(k)
FindOp(k) ==
  /\ res.tag # "Panic"
  /\ LET f == BTreeFind(root, k) IN
       res' = [op |-> "find", key |-> k, tag |-> f.tag, val |-> f.val, descended |-> FALSE]
  /\ UNCHANGED <<root, added, nadds, fi, sp>>

\* Any key may be added, also one added before; as in the data tables of
\* main() and of the test, key k carries the k-th letter.
Add == \E k \in Keys : nadds < MaxAdds /\ AddOp(k, Letters[k])

Find == \E k \in ProbeKeys : FindOp(k)

Next == Add \/ Find

Spec == Init /\ [][Next]_vars

\* ----------------------------------------------------------- main()
MainInit ==
  /\ root = BTreeNew(MainNodeSize)
  /\ added = {}
  /\ nadds = 0
  /\ res = ResNew
  /\ fi = FiIdle
  /\ sp = SpIdle

\* for (key, value) in data.iter() { tree.add(..) }
MainAdd == nadds < MainLen /\ AddOp(nadds + 1, Letters[nadds + 1])

MainFind == \E k \in 1..(MainLen + 1) : FindOp(k)

MainNext == MainAdd \/ MainFind

MainSpec == MainInit /\ [][MainNext]_vars

\* ------------------------------------------------- find_it, step by step
RECURSIVE SortedSeqOf(_)
SortedSeqOf(S) ==
  IF S = {} THEN <<>>
  ELSE LET m == CHOOSE x \in S : \A y \in S : x <= y
       IN <<m>> \o SortedSeqOf(S \ {m})

KeySeqs == {SortedSeqOf(S) : S \in SUBSET Keys}

FindItInit ==
  /\ root = BTreeNodeNew(0)
  /\ added = {}
  /\ nadds = 0
  /\ res = ResNew
  /\ sp = SpIdle
  /\ \E ks \in KeySeqs, t \in 0..(MaxKey + 1) :
       fi = [keys |-> ks, key |-> t, s |-> find_it_entry(ks)]

FindItStep ==
  /\ fi.s.pc = "loop"
  /\ fi' = [fi EXCEPT !.s = find_it_step(fi.keys, fi.key, fi.s)]
  /\ UNCHANGED <<root, added, nadds, res, sp>>

FindItNext == FindItStep

\* the loop is straight-line sequential code: it keeps running
FindItSpec == FindItInit /\ [][FindItNext]_vars /\ WF_vars(FindItStep)

\* ------------------------------------------------------ split, in isolation
\* Nodes as they are when add_recursive calls split: node_size + 1 keys, and
\* no children, or the two of a grown root, or (node_size 1) three.
SplitChildren(c, n) == [j \in 1..n |-> [BTreeNodeNew(c) EXCEPT !.keys = <<j>>, !.values = <<"c">>]]

SplitInputsOf(c) ==
  {[node_size |-> c, keys |-> ks, values |-> vs, children |-> SplitChildren(c, n)] :
     ks \in {q \in KeySeqs : Len(q) = c + 1},
     vs \in [1..(c + 1) -> Vals],
     n \in {0, IF c = 1 THEN 3 ELSE 2}}

SplitInputs == UNION {SplitInputsOf(c) : c \in 1..MaxCap}

SplitInit ==
  /\ root = BTreeNodeNew(0)
  /\ added = {}
  /\ nadds = 0
  /\ res = ResNew
  /\ fi = FiIdle
  /\ \E n \in SplitInputs : sp = [pc |-> "call", before |-> n, self |-> n, new_node |-> <<>>]

SplitCall ==
  /\ sp.pc = "call"
  /\ LET r == split(sp.self) IN
       sp' = [pc |-> "done", before |-> sp.before, self |-> r.self, new_node |-> <<r.new_node>>]
  /\ UNCHANGED <<root, added, nadds, res, fi>>

SplitNext == SplitCall

SplitSpec == SplitInit /\ [][SplitNext]_vars

\* ------------------------------------------------------------ properties
\* C1: with pairwise distinct keys added, after each add find(k) returns the
\* value added with k, for every key k added so far.
FindAfterAdd ==
  DistinctKeys => \A p \in added : BTreeFind(root, p[1]) = Some(p[2])

\* C2: find on a freshly constructed tree (no add yet) returns not-found for
\* any key and does not panic.
EmptyTreeFindNotFound ==
  nadds = 0 => \A k \in ProbeKeys : BTreeFind(root, k) = None

\* C3: with distinct keys added, in every node the keys are strictly
\* increasing and keys of children[i] < keys[i] < keys of children[i+1].
OrderingInvariant == DistinctKeys => Ordered(root)

\* C4: with distinct keys added, after every completed add no node of the
\* tree holds more than node_size keys.
CapacityInvariant ==
  DistinctKeys => \A n \in Nodes(root) : Len(n.keys) <= n.node_size

CapacityWitness ==
  /\ DistinctKeys
  /\ res.op = "add"
  /\ Height(root) >= 3
  /\ \E n \in Nodes(root) : Len(n.keys) = n.node_size /\ n.children # <<>>

\* C5: with distinct keys added and at least one add done, find(k) of a key
\* never added returns not-found: neither a value nor a panic.
NoFalsePositive ==
  (DistinctKeys /\ nadds >= 1) =>
     \A k \in ProbeKeys \ AddedKeys : BTreeFind(root, k) = None

NoFalsePositiveWitness ==
  /\ DistinctKeys
  /\ root.children # <<>>
  /\ res.op = "find"
  /\ res.key \notin AddedKeys
  /\ res.tag = "None"
  /\ generate_find_path(root, res.key) = <<>>

\* C6: node_size 3 and keys 1..26 added in increasing order: after each add
\* every key added so far is found with its value, and the final tree has
\* height greater than 1 and satisfies the ordering invariant.
MainScenario ==
  /\ root.node_size = MainNodeSize
  /\ \A p \in added : BTreeFind(root, p[1]) = Some(p[2])
  /\ nadds = MainLen => (Height(root) > 1 /\ Ordered(root))

MainScenarioWitness ==
  /\ nadds = MainLen
  /\ AddedKeys = 1..MainLen
  /\ res.op = "find"
  /\ res.tag = "Some"
  /\ Len(generate_find_path(root, res.key)) >= 3

\* C7: find_it on a strictly increasing key sequence returns -(m+1) exactly
\* when keys[m] is the target, and otherwise the index low in [0, len] with
\* all keys before low smaller and all keys from low on greater than the
\* target; on the empty sequence it returns 0; the loop terminates (high - low
\* shrinks on every iteration that continues, within 0 <= low <= high <= len).
FindItResult ==
  fi.s.pc = "done" =>
    LET r == fi.s.ret
        n == Len(fi.keys)
    IN /\ (r < 0) <=> (\E m \in 0..(n - 1) : At(fi.keys, m) = fi.key)
       /\ r < 0 => (-(r + 1) \in 0..(n - 1) /\ At(fi.keys, -(r + 1)) = fi.key)
       /\ r >= 0 => /\ r <= n
                    /\ \A j \in 0..(n - 1) :
                         IF j < r THEN At(fi.keys, j) < fi.key ELSE At(fi.keys, j) > fi.key
       /\ n = 0 => r = 0

FindItContract ==
  /\ [](FindItResult /\ 0 <= fi.s.low /\ fi.s.low <= fi.s.high /\ fi.s.high <= Len(fi.keys))
  /\ [][(fi.s.pc = "loop" /\ fi'.s.pc = "loop") =>
          (fi'.s.high - fi'.s.low < fi.s.high - fi.s.low)]_vars
  /\ <>(fi.s.pc = "done")

FindItWitness ==
  /\ fi.s.pc = "done"
  /\ fi.s.ret < -1
  /\ Len(fi.keys) = MaxKey

\* C8: split of a node with n keys, mid = n / 2: the node keeps keys/values
\* [0, mid), the returned node holds keys/values [mid, n), its children are
\* empty, and the node's own children are left as they were.
SplitContract ==
  sp.pc = "done" =>
    LET b == sp.before
        n == Len(b.keys)
        mid == n \div 2
        nw == sp.new_node[1]
    IN /\ Len(sp.self.keys) = mid /\ Len(sp.self.values) = mid
       /\ \A j \in 0..(mid - 1) :
            At(sp.self.keys, j) = At(b.keys, j) /\ At(sp.self.values, j) = At(b.values, j)
       /\ Len(nw.keys) = n - mid /\ Len(nw.values) = n - mid
       /\ \A j \in 0..(n - mid - 1) :
            At(nw.keys, j) = At(b.keys, mid + j) /\ At(nw.values, j) = At(b.values, mid + j)
       /\ sp.self.keys \o nw.keys = b.keys
       /\ sp.self.values \o nw.values = b.values
       /\ nw.children = <<>>
       /\ nw.node_size = b.node_size
       /\ sp.self.children = b.children
       /\ sp.self.node_size = b.node_size

SplitWitness ==
  /\ sp.pc = "done"
  /\ Len(sp.before.children) >= 2
  /\ Len(sp.self.children) = Len(sp.before.children)

\* C9: with node_size >= 2, whatever is added, every node has 0 or exactly 2
\* children, the test children.len() < node_size + 1 holds of the root,
\* add_recursive never descends into a child, every add puts its key into
\* the root's own key sequence, and children appear only by root growth.
ShapeOK ==
  root.node_size >= 2 =>
    /\ \A n \in Nodes(root) : Len(n.children) \in {0, 2}
    /\ Len(root.children) < root.node_size + 1
    /\ ~res.descended
    /\ res.op = "add" => res.tag = "Ok"

DirectInsert ==
  \E idx \in 0..Len(root.keys) :
    LET ks == Insert(root.keys, idx, res'.key) IN
      \/ /\ root'.keys = ks
         /\ root'.children = root.children
      \/ /\ Len(root'.keys) = 1
         /\ Len(root'.children) = 2
         /\ root'.children[1].children = root.children
         /\ root'.children[2].children = <<>>
         /\ root'.children[1].keys \o root'.keys \o root'.children[2].keys = ks

DegenerateShape ==
  /\ []ShapeOK
  /\ [][(root.node_size >= 2 /\ nadds' = nadds + 1) => DirectInsert]_vars

DegenerateShapeWitness ==
  /\ root.node_size >= 2
  /\ res.op = "add"
  /\ Height(root) >= 3
  /\ Len(root.children[1].children) = 2

\* C10: with distinct keys added, after each add the (key, value) slots of
\* all nodes hold exactly the pairs added so far, each once, and in every
\* node keys and values have the same length.
Conservation ==
  DistinctKeys =>
    /\ \A n \in Nodes(root) : Len(n.keys) = Len(n.values)
    /\ Len(Pairs(root)) = nadds
    /\ Range(Pairs(root)) = added

ConservationWitness ==
  /\ DistinctKeys
  /\ res.op = "add"
  /\ res.descended
  /\ \E n \in Nodes(root) : Len(n.children) >= 3

====
